---- MODULE Spec2Model ----
(***************************************************************************)
(* Model of oracle_user.py: one reconciliation pass (ensure) reads the     *)
(* account, decides on one SQL statement, executes it and reads the        *)
(* account again.  Statements are modelled as the text the code formats,   *)
(* kept as a sequence of tokens (the code joins them with single spaces).  *)
(* The Oracle database is the environment: its catalog is the variable db. *)
(***************************************************************************)
EXTENDS Integers, Sequences, FiniteSets, TLC

VARIABLES db, desired, pc, given, user, sql, changed, ops, before, final, last

vars == <<db, desired, pc, given, user, sql, changed, ops, before, final, last>>

(* ------------------------------ values -------------------------------- *)

\* Python None for an optional str parameter; Some(s) is the str s.
None == <<>>
Some(s) == <<s>>

\* Python truthiness of an optional str: None and '' are falsy.
Truthy(v) == v # None /\ v[1] # ""

\* str.format of an optional str: None is rendered as the text None.
Fmt(v) == IF v = None THEN "None" ELSE v[1]

\* '{x}' and "{x}" inside the format strings.
SQuote(s) == "'" \o s \o "'"
DQuote(s) == "\"" \o s \o "\""

\* getUser's result when no row is fetched (data = None), and the falsy sql.
NoUser == <<>>
NoSql == <<>>

Procs == {"c1", "c2"}
Controller == "c1"

Names == {"app_user", "APP_USER"}
Hashes == {"H1", "H2"}
DefaultTablespaces == {"USERS", "DATA"}
TemporaryTablespaces == {"TEMP", "TEMP2"}
States == {"present", "absent", "locked", "unlocked"}
AccountStatuses == {"OPEN", "LOCKED", "EXPIRED", "EXPIRED & LOCKED"}

Opt(S) == {None, Some("")} \cup {Some(s) : s \in S}

\* module.params (name is chosen per pass, see Start)
Desired == [password : Opt(Hashes), state : States,
            default_tablespace : Opt(DefaultTablespaces),
            temporary_tablespace : Opt(TemporaryTablespaces)]

\* str.upper() on the names of the model
Upper(s) == IF s = "app_user" THEN "APP_USER" ELSE s

(* ----------------------------- database ------------------------------- *)

\* The catalog stores account names upper-case.
Catalog == {"APP_USER"}
DbDefaultTablespace == "USERS"
DbTemporaryTablespace == "TEMP"

Rows == [default_tablespace : DefaultTablespaces,
         temporary_tablespace : TemporaryTablespaces,
         password : Hashes \cup {"None", ""},
         account_status : AccountStatuses]

\* the row of dba_users join sys.user$ where s.name = :name, if any
Lookup(d, name) == IF name \in Catalog THEN d[name] ELSE <<>>

\* getUser: None, or the dict built from the first row
getUser(d, name) ==
    IF Lookup(d, name) = <<>> THEN NoUser
    ELSE LET row == Lookup(d, name)[1] IN
         Some([name |-> name,
               default_tablespace |-> row.default_tablespace,
               temporary_tablespace |-> row.temporary_tablespace,
               password |-> row.password,
               account_status |-> row.account_status])

(* ------------------------- statement builders ------------------------- *)

getCreateUserSQL(name, userpass, default_tablespace, temporary_tablespace, account_status) ==
    LET s0 == <<"CREATE USER", name, "IDENTIFIED BY VALUES", SQuote(Fmt(userpass))>>
        s1 == IF Truthy(default_tablespace)
              THEN s0 \o <<"DEFAULT TABLESPACE", Fmt(default_tablespace)>> ELSE s0
        s2 == IF Truthy(temporary_tablespace)
              THEN s1 \o <<"TEMPORARY TABLESPACE", Fmt(temporary_tablespace)>> ELSE s1
        s3 == IF Truthy(account_status)
              THEN s2 \o <<"ACCOUNT", Fmt(account_status)>> ELSE s2
    IN s3

getDropUserSQL(name) == <<"DROP USER", DQuote(name), "CASCADE">>

\* account_status is accepted and never used
getUpdateUserSQL(name, userpass, default_tablespace, temporary_tablespace, account_status) ==
    LET s0 == <<"ALTER USER", name>>
        s1 == IF Truthy(userpass)
              THEN s0 \o <<"IDENTIFIED BY VALUES", SQuote(Fmt(userpass))>> ELSE s0
        s2 == IF Truthy(default_tablespace)
              THEN s1 \o <<"DEFAULT TABLESPACE", Fmt(default_tablespace)>> ELSE s1
        s3 == IF Truthy(temporary_tablespace)
              THEN s2 \o <<"TEMPORARY TABLESPACE", Fmt(temporary_tablespace)>> ELSE s2
    IN s3

\* variant: the two lock keywords exchanged
mapState_swapped(state) == IF state \in {"present", "unlocked"} THEN "LOCK" ELSE "UNLOCK"

mapState(state) == IF state \in {"present", "unlocked"} THEN "UNLOCK" ELSE "LOCK"

\* variant: EXPIRED (not locked) counted as an unlocked status
mapAccountStatus_finer(account_status) ==
    IF account_status \in {"OPEN", "EXPIRED"} THEN {"present", "unlocked"} ELSE {"locked"}

\* `state in 'locked'` is a substring test: of the choices of state only
\* "locked" is a substring of 'locked'.
mapAccountStatus(account_status) ==
    IF account_status = "OPEN" THEN {"present", "unlocked"} ELSE {"locked"}

(* ------------------------------ ensure -------------------------------- *)

\* variant: the name used as given
ensureName_asGiven(raw) == raw

\* name = module.params['name'].upper()
ensureName(raw) == Upper(raw)

\* variant: the comparison without the truthiness test before it
differs_unguarded(stored, wanted) == Some(stored) # wanted

\* user.get(field) != wanted, for a provided (truthy) wanted
differs(stored, wanted) == Truthy(wanted) /\ Some(stored) # wanted

\* variant: the test of state against 'absent' left out
ensureNotFound_always(d, name) ==
    getCreateUserSQL(name, d.password, d.default_tablespace,
                     d.temporary_tablespace, Some(mapState(d.state)))

\* the branch `if not user`
ensureNotFound(d, name) ==
    IF d.state # "absent"
    THEN getCreateUserSQL(name, d.password, d.default_tablespace,
                          d.temporary_tablespace, Some(mapState(d.state)))
    ELSE NoSql

\* variant: one if/elif chain, the first difference found wins
ensureFound_firstWins(d, name, u) ==
    IF d.state = "absent" THEN getDropUserSQL(name)
    ELSE IF d.state \notin mapAccountStatus(u.account_status)
    THEN getUpdateUserSQL(name, None, None, None, Some(mapState(d.state)))
    ELSE IF differs(u.password, d.password)
    THEN getUpdateUserSQL(name, d.password, None, None, None)
    ELSE IF differs(u.default_tablespace, d.default_tablespace)
    THEN getUpdateUserSQL(name, None, d.default_tablespace, None, None)
    ELSE IF differs(u.temporary_tablespace, d.temporary_tablespace)
    THEN getUpdateUserSQL(name, None, None, d.temporary_tablespace, None)
    ELSE NoSql

\* the elif branch: the statement built when the lifecycle does not match the
\* observed status, NoSql when the branch is not taken
lockStateSql(d, name, u) ==
    IF d.state \notin mapAccountStatus(u.account_status)
    THEN getUpdateUserSQL(name, None, None, None, Some(mapState(d.state)))
    ELSE NoSql

\* the else branch: an if/elif, then three independent ifs, each overwriting sql
ensureFound(d, name, u) ==
    LET s1 == IF d.state = "absent" THEN getDropUserSQL(name)
              ELSE lockStateSql(d, name, u)
        s2 == IF differs(u.password, d.password)
              THEN getUpdateUserSQL(name, d.password, None, None, None) ELSE s1
        s3 == IF differs(u.default_tablespace, d.default_tablespace)
              THEN getUpdateUserSQL(name, None, d.default_tablespace, None, None) ELSE s2
        s4 == IF differs(u.temporary_tablespace, d.temporary_tablespace)
              THEN getUpdateUserSQL(name, None, None, d.temporary_tablespace, None) ELSE s3
    IN s4

ensureSql(d, name, u) ==
    IF u = NoUser THEN ensureNotFound(d, name) ELSE ensureFound(d, name, u[1])

(* ---------------- the database executing a statement ------------------ *)

\* The account a statement names: an unquoted identifier is folded to upper
\* case by the database, a quoted one ("...") is taken as written.
Target(s) ==
    IF s[1] = "DROP USER"
    THEN IF \E n \in Names : DQuote(n) = s[2]
         THEN CHOOSE n \in Names : DQuote(n) = s[2] ELSE s[2]
    ELSE Upper(s[2])

HasClause(s, kw) == \E i \in 3..(Len(s) - 1) : s[i] = kw
ClauseArg(s, kw) == s[(CHOOSE i \in 3..(Len(s) - 1) : s[i] = kw) + 1]

\* the hash inside '...'
Unquote(tok) == CHOOSE h \in Hashes \cup {"None", ""} : SQuote(h) = tok

\* CREATE needs the account not to exist, ALTER and DROP need it to exist.
Accepts(d, s) ==
    /\ Target(s) \in Catalog
    /\ IF s[1] = "CREATE USER" THEN d[Target(s)] = <<>> ELSE d[Target(s)] # <<>>

SetLock(status, lock) ==
    IF lock = "LOCK"
    THEN (IF status = "OPEN" THEN "LOCKED"
          ELSE IF status = "EXPIRED" THEN "EXPIRED & LOCKED" ELSE status)
    ELSE (IF status = "LOCKED" THEN "OPEN"
          ELSE IF status = "EXPIRED & LOCKED" THEN "EXPIRED" ELSE status)

\* the row after the clauses of s are applied to row r
WithClauses(r, s) ==
    [default_tablespace |->
        IF HasClause(s, "DEFAULT TABLESPACE")
        THEN ClauseArg(s, "DEFAULT TABLESPACE") ELSE r.default_tablespace,
     temporary_tablespace |->
        IF HasClause(s, "TEMPORARY TABLESPACE")
        THEN ClauseArg(s, "TEMPORARY TABLESPACE") ELSE r.temporary_tablespace,
     password |->
        IF HasClause(s, "IDENTIFIED BY VALUES")
        THEN Unquote(ClauseArg(s, "IDENTIFIED BY VALUES")) ELSE r.password,
     account_status |->
        IF HasClause(s, "ACCOUNT")
        THEN SetLock(r.account_status, ClauseArg(s, "ACCOUNT")) ELSE r.account_status]

NewRow == [default_tablespace |-> DbDefaultTablespace,
           temporary_tablespace |-> DbTemporaryTablespace,
           password |-> "", account_status |-> "OPEN"]

\* the catalog after the database executed s (cur.execute(sql) succeeded)
Apply(d, s) ==
    IF s[1] = "CREATE USER" THEN [d EXCEPT ![Target(s)] = <<WithClauses(NewRow, s)>>]
    ELSE IF s[1] = "DROP USER" THEN [d EXCEPT ![Target(s)] = <<>>]
    ELSE [d EXCEPT ![Target(s)] = <<WithClauses(d[Target(s)][1], s)>>]

(* ------------------------------ the pass ------------------------------ *)

\* `if sql:`
IsStatement(s) == s # NoSql

\* variant: the statement is issued again after it succeeded
pcAfterExecute_again == "decided"

\* variant: ensure returns right after the statement, without the second lookup
pcAfterExecute_noConfirm == "done"

\* where ensure goes after executeSQL returned
pcAfterExecute == "confirm"

\* variant: the error of the statement is swallowed and ensure goes on
pcAfterExecuteFails_goesOn == "confirm"

\* executeSQL's except branch: fail_json ends the run
pcAfterExecuteFails == "failed"

\* variant: the error of the lookup is swallowed and the lookup is repeated
pcAfterLookupFails_retry == "read"

\* getUser's except branch at the first lookup: fail_json ends the run
pcAfterLookupFails == "failed"

\* variant: changed starts out True
changedAtStart_true == TRUE

\* variant: changed is left as it was after the statement
changedAfterExecute_false == FALSE

\* changed = False at the start of ensure; changed = True after executeSQL
changedAtStart == FALSE
changedAfterExecute == TRUE

Report(p, ok) ==
    [given |-> given[p], user |-> user[p], sql |-> sql[p], changed |-> changed[p],
     final |-> final[p], ok |-> ok, before |-> before[p], after |-> db, ops |-> ops[p]]

\* The account is missing, or has any tablespaces and status; its hash is H1
\* (the desired hash ranges over both), other hashes are reached by statements.
InitialDb ==
    {[n \in Catalog |-> <<>>]} \cup
    {[n \in Catalog |-> <<r>>] :
        r \in {x \in Rows : x.password = "H1"}}

Init ==
    /\ db \in InitialDb
    /\ desired \in Desired
    /\ pc = [p \in Procs |-> "idle"]
    /\ given = [p \in Procs |-> "APP_USER"]
    /\ user = [p \in Procs |-> NoUser]
    /\ sql = [p \in Procs |-> NoSql]
    /\ changed = [p \in Procs |-> FALSE]
    /\ ops = [p \in Procs |-> <<>>]
    /\ before = [p \in Procs |-> db]
    /\ final = [p \in Procs |-> NoUser]
    /\ last = <<>>

\* main calls ensure: the parameters are read, nothing is looked up yet
Start(p) ==
    /\ pc[p] = "idle"
    /\ \E n \in Names : given' = [given EXCEPT ![p] = n]
    /\ pc' = [pc EXCEPT ![p] = "read"]
    /\ changed' = [changed EXCEPT ![p] = changedAtStart]
    /\ sql' = [sql EXCEPT ![p] = NoSql]
    /\ user' = [user EXCEPT ![p] = NoUser]
    /\ final' = [final EXCEPT ![p] = NoUser]
    /\ ops' = [ops EXCEPT ![p] = <<>>]
    /\ before' = [before EXCEPT ![p] = db]
    /\ UNCHANGED <<db, desired, last>>

\* user = getUser(conn, name), then the if/else that sets sql
ReadUser(p) ==
    /\ pc[p] = "read"
    /\ LET u == getUser(db, ensureName(given[p])) IN
        /\ user' = [user EXCEPT ![p] = u]
        /\ sql' = [sql EXCEPT ![p] = ensureSql(desired, ensureName(given[p]), u)]
    /\ ops' = [ops EXCEPT ![p] = Append(@, "read")]
    /\ pc' = [pc EXCEPT ![p] = "decided"]
    /\ UNCHANGED <<db, desired, given, changed, before, final, last>>

\* the lookup raises DatabaseError: fail_json ends the run
ReadUserFails(p) ==
    /\ pc[p] = "read"
    /\ ops' = [ops EXCEPT ![p] = Append(@, "read failed")]
    /\ pc' = [pc EXCEPT ![p] = pcAfterLookupFails]
    /\ UNCHANGED <<db, desired, given, user, sql, changed, before, final, last>>

\* if sql: executeSQL(conn, sql); changed = True
Execute(p) ==
    /\ pc[p] = "decided"
    /\ IsStatement(sql[p])
    /\ Accepts(db, sql[p])
    /\ db' = Apply(db, sql[p])
    /\ changed' = [changed EXCEPT ![p] = changedAfterExecute]
    /\ ops' = [ops EXCEPT ![p] = Append(@, "execute")]
    /\ pc' = [pc EXCEPT ![p] = pcAfterExecute]
    /\ UNCHANGED <<desired, given, user, sql, before, final, last>>

\* cur.execute(sql) raises DatabaseError: fail_json ends the run
ExecuteFails(p) ==
    /\ pc[p] = "decided"
    /\ IsStatement(sql[p])
    /\ ops' = [ops EXCEPT ![p] = Append(@, "execute failed")]
    /\ pc' = [pc EXCEPT ![p] = pcAfterExecuteFails]
    /\ UNCHANGED <<db, desired, given, user, sql, changed, before, final, last>>

\* sql is falsy: nothing is executed
NoStatement(p) ==
    /\ pc[p] = "decided"
    /\ ~IsStatement(sql[p])
    /\ pc' = [pc EXCEPT ![p] = "confirm"]
    /\ UNCHANGED <<db, desired, given, user, sql, changed, ops, before, final, last>>

\* return changed, getUser(conn, name); main reports them with exit_json
Confirm(p) ==
    /\ pc[p] = "confirm"
    /\ final' = [final EXCEPT ![p] = getUser(db, ensureName(given[p]))]
    /\ ops' = [ops EXCEPT ![p] = Append(@, "read")]
    /\ pc' = [pc EXCEPT ![p] = "done"]
    /\ UNCHANGED <<db, desired, given, user, sql, changed, before, last>>

ConfirmFails(p) ==
    /\ pc[p] = "confirm"
    /\ ops' = [ops EXCEPT ![p] = Append(@, "read failed")]
    /\ pc' = [pc EXCEPT ![p] = "failed"]
    /\ UNCHANGED <<db, desired, given, user, sql, changed, before, final, last>>

\* the process ends; what remains of the run is its report
Exit(p) ==
    /\ pc[p] \in {"done", "failed"}
    /\ last' = <<Report(p, pc[p] = "done")>>
    /\ pc' = [pc EXCEPT ![p] = "idle"]
    /\ given' = [given EXCEPT ![p] = "APP_USER"]
    /\ user' = [user EXCEPT ![p] = NoUser]
    /\ sql' = [sql EXCEPT ![p] = NoSql]
    /\ changed' = [changed EXCEPT ![p] = FALSE]
    /\ ops' = [ops EXCEPT ![p] = <<>>]
    /\ before' = [before EXCEPT ![p] = db]
    /\ final' = [final EXCEPT ![p] = NoUser]
    /\ UNCHANGED <<db, desired>>

Pass(p) ==
    \/ Start(p)
    \/ ReadUser(p)
    \/ ReadUserFails(p)
    \/ Execute(p)
    \/ ExecuteFails(p)
    \/ NoStatement(p)
    \/ Confirm(p)
    \/ ConfirmFails(p)
    \/ Exit(p)

\* one controller runs the passes one after another
Next == Pass(Controller)

Spec == Init /\ [][Next]_vars

\* The controller keeps repeating the pass and every lookup and statement
\* succeeds: the passes of a caller that re-runs the module until it settles.
NextRepeat ==
    \/ Start(Controller)
    \/ ReadUser(Controller)
    \/ Execute(Controller)
    \/ NoStatement(Controller)
    \/ Confirm(Controller)
    \/ Exit(Controller)

SpecRepeat == Init /\ [][NextRepeat]_vars /\ WF_vars(NextRepeat)

\* Two invocations of the module launched for the same missing account, one
\* pass each, their steps interleaved; nothing orders them.
InitRace == Init /\ db = [n \in Catalog |-> <<>>]

NextRace ==
    \E p \in Procs :
        \/ Start(p) /\ last = <<>>
        \/ ReadUser(p)
        \/ ReadUserFails(p)
        \/ Execute(p)
        \/ ExecuteFails(p)
        \/ NoStatement(p)
        \/ Confirm(p)
        \/ ConfirmFails(p)
        \/ Exit(p)

SpecRace == InitRace /\ [][NextRace]_vars

(* ====================== properties of the pass ======================== *)

c == Controller

\* a value was given for an optional parameter (not None, not '')
Provided(v) == v \notin {None, Some("")}

\* a provided parameter whose stored value is another one
Mismatch(stored, wanted) == Provided(wanted) /\ wanted[1] # stored

\* the lifecycle agrees with the observed status (OPEN: present or unlocked,
\* any other status: locked)
LockMatches(state, status) ==
    IF status = "OPEN" THEN state \in {"present", "unlocked"} ELSE state = "locked"

\* nothing is left to reconcile between the desired state and a record
Agrees(d, rec) ==
    IF rec = NoUser THEN d.state = "absent"
    ELSE /\ d.state # "absent"
         /\ LockMatches(d.state, rec[1].account_status)
         /\ ~Mismatch(rec[1].password, d.password)
         /\ ~Mismatch(rec[1].default_tablespace, d.default_tablespace)
         /\ ~Mismatch(rec[1].temporary_tablespace, d.temporary_tablespace)

Count(seq, x) == Cardinality({i \in 1..Len(seq) : seq[i] = x})
Executions(seq) == Count(seq, "execute") + Count(seq, "execute failed")

AlterOnly(name, kw, arg) == <<"ALTER USER", name, kw, arg>>
ClauseKeywords ==
    {"IDENTIFIED BY VALUES", "DEFAULT TABLESPACE", "TEMPORARY TABLESPACE", "ACCOUNT"}

\* the previous pass ended with a report and no one wrote to the database
\* between its end and the start of the current pass
Successive == last # <<>> /\ last[1].ok /\ last[1].after = before[c]

\* C1: a pass issues at most one mutating statement, whatever differs.
C1_AtMostOneStatement == \A p \in Procs : Executions(ops[p]) <= 1

C1_Witness ==
    /\ pc[c] = "done"
    /\ user[c] # NoUser
    /\ Mismatch(user[c][1].password, desired.password)
    /\ Mismatch(user[c][1].default_tablespace, desired.default_tablespace)
    /\ Mismatch(user[c][1].temporary_tablespace, desired.temporary_tablespace)
    /\ ~LockMatches(desired.state, user[c][1].account_status)
    /\ Executions(ops[c]) = 1

\* C2 as stated: a pass that follows a pass reporting changed=true with the
\* same desired state builds no statement and reports changed=false.
C2_Original ==
    (pc[c] = "done" /\ Successive /\ last[1].changed)
        => (sql[c] = NoSql /\ ~changed[c])

\* C2 amended: after a pass reporting changed=true, the next pass builds no
\* statement and reports changed=false exactly when the record the first pass
\* reported agrees with the desired state; otherwise it builds a statement.
C2_Amended ==
    (pc[c] = "done" /\ Successive /\ last[1].changed)
        => ((sql[c] = NoSql /\ ~changed[c]) <=> Agrees(desired, last[1].final))

C2_Witness ==
    /\ pc[c] = "done" /\ Successive /\ last[1].changed
    /\ last[1].sql[1] = "ALTER USER"
    /\ sql[c] = NoSql /\ ~changed[c]

\* C3: an existing account with lifecycle absent gets exactly
\* DROP USER "<NAME>" CASCADE, whatever the other parameters are, and the
\* final record is NotFound.
C3_Drop ==
    (user[c] # NoUser /\ desired.state = "absent")
        => /\ pc[c] = "decided" => sql[c] = <<"DROP USER", DQuote(Upper(given[c])), "CASCADE">>
           /\ pc[c] = "done" => final[c] = NoUser

\* C4: an OPEN account with lifecycle locked gets an ALTER carrying ACCOUNT
\* LOCK and nothing else, whatever else differs.
C4_Lock ==
    (pc[c] = "decided" /\ user[c] # NoUser /\ desired.state = "locked"
        /\ user[c][1].account_status = "OPEN")
        => sql[c] = AlterOnly(Upper(given[c]), "ACCOUNT", "LOCK")

PasswordCase ==
    /\ pc[c] = "decided" /\ user[c] # NoUser
    /\ LockMatches(desired.state, user[c][1].account_status)
    /\ Mismatch(user[c][1].password, desired.password)

TablespaceCase ==
    /\ pc[c] = "decided" /\ Successive
    /\ last[1].user # NoUser
    /\ LockMatches(desired.state, last[1].user[1].account_status)
    /\ ~Provided(desired.password)
    /\ Mismatch(last[1].user[1].default_tablespace, desired.default_tablespace)
    /\ Mismatch(last[1].user[1].temporary_tablespace, desired.temporary_tablespace)

CreateCase == user[c] = NoUser /\ desired.state # "absent"

\* C7: for an account that does not exist and a lifecycle other than absent,
\* one CREATE is built and executed and the final record's lock state is the
\* requested one.
C7_Create ==
    CreateCase =>
        /\ pc[c] = "decided" => (IsStatement(sql[c]) /\ sql[c][1] = "CREATE USER")
        /\ pc[c] = "done" =>
            /\ ops[c] = <<"read", "execute", "read">>
            /\ sql[c][1] = "CREATE USER"
            /\ final[c] # NoUser
            /\ final[c][1].account_status =
                 (IF desired.state = "locked" THEN "LOCKED" ELSE "OPEN")

C7_Witness ==
    /\ CreateCase /\ pc[c] = "done" /\ desired.state = "locked"
    /\ final[c] # NoUser /\ final[c][1].account_status = "LOCKED"

AbsentCase == pc[c] \in {"decided", "confirm", "done"} /\ user[c] = NoUser /\ desired.state = "absent"

\* C8: for an account that does not exist and lifecycle absent nothing is
\* built or executed, changed is false and the final record is NotFound.
C8_AbsentNoOp ==
    AbsentCase =>
        /\ sql[c] = NoSql
        /\ Executions(ops[c]) = 0
        /\ ~changed[c]
        /\ pc[c] = "done" => final[c] = NoUser

C8_Witness ==
    /\ AbsentCase /\ pc[c] = "done" /\ Provided(desired.password)
    /\ Provided(desired.default_tablespace) /\ final[c] = NoUser

\* C9: changed is true iff a statement was built and its execution
\* succeeded; a pass whose statement fails reports nothing.
C9_Changed ==
    /\ pc[c] = "done" =>
         (changed[c] <=> (IsStatement(sql[c]) /\ Count(ops[c], "execute") = 1))
    /\ Count(ops[c], "execute failed") > 0 => (pc[c] = "failed" /\ ~changed[c])

C9_Witness ==
    /\ pc[c] = "done" /\ changed[c]
    /\ last # <<>> /\ ~last[1].ok /\ Count(last[1].ops, "execute failed") = 1

\* C10: every ALTER built carries exactly one clause.
C10_OneClause ==
    (pc[c] = "decided" /\ IsStatement(sql[c]) /\ sql[c][1] = "ALTER USER")
        => (Len(sql[c]) = 4 /\ sql[c][3] \in ClauseKeywords)

\* C11: repeating the pass with the same desired state, every statement
\* succeeding, eventually reaches a pass that builds no statement, the
\* observed account then agreeing with the desired state.
C11_Convergence ==
    <>(pc[c] = "decided" /\ sql[c] = NoSql /\ Agrees(desired, user[c]))

LastOp(seq) == seq[Len(seq)]

\* C12: a failing statement ends the pass at once: no confirmation read
\* follows it and nothing is reported.
C12_StatementFailure ==
    /\ Count(ops[c], "execute failed") > 0 =>
         /\ pc[c] = "failed"
         /\ LastOp(ops[c]) = "execute failed"
         /\ final[c] = NoUser
    /\ (last # <<>> /\ Count(last[1].ops, "execute failed") > 0) =>
         /\ ~last[1].ok
         /\ LastOp(last[1].ops) = "execute failed"
         /\ last[1].final = NoUser

C12_Witness ==
    /\ pc[c] = "failed" /\ ops[c] = <<"read", "execute failed">>
    /\ user[c] # NoUser

\* C13: a failing first lookup ends the pass: no statement is built or
\* executed and the database is left as it was.
C13_LookupFailure ==
    /\ (ops[c] # <<>> /\ ops[c][1] = "read failed") =>
         /\ pc[c] = "failed"
         /\ ops[c] = <<"read failed">>
         /\ sql[c] = NoSql
         /\ db = before[c]
    /\ (last # <<>> /\ last[1].ops[1] = "read failed") =>
         /\ ~last[1].ok
         /\ last[1].ops = <<"read failed">>
         /\ last[1].sql = NoSql
         /\ last[1].after = last[1].before

C13_Witness ==
    /\ pc[c] = "failed" /\ ops[c] = <<"read failed">>
    /\ ~Agrees(desired, getUser(db, "APP_USER"))

\* the lifecycle and the observed status disagree on the lock state
LockMismatch(state, status) ==
    \/ status = "OPEN" /\ state = "locked"
    \/ status # "OPEN" /\ state \in {"present", "unlocked"}

FoundCase == pc[c] = "decided" /\ user[c] # NoUser /\ desired.state # "absent"

NoFieldMismatch(u) ==
    /\ ~Mismatch(u.password, desired.password)
    /\ ~Mismatch(u.default_tablespace, desired.default_tablespace)
    /\ ~Mismatch(u.temporary_tablespace, desired.temporary_tablespace)

InPass == pc[c] \in {"decided", "confirm", "done"}

\* the previous pass started from the same database state as the current
\* one, with the name written in the other letter case
SameStartOtherCase ==
    /\ InPass /\ last # <<>>
    /\ last[1].ops[1] = "read"
    /\ last[1].before = before[c]
    /\ last[1].given # given[c]

\* C15: passes that differ only in the letter case of the name, run from the
\* same database state, look up the upper-cased name, build the same
\* statement with the upper-cased name and report the same result.
C15_NameNormalization ==
    /\ InPass =>
         /\ \A n \in Names :
              /\ user[c] = getUser(before[c], ensureName(n))
              /\ sql[c] = ensureSql(desired, ensureName(n), getUser(before[c], ensureName(n)))
         /\ user[c] # NoUser => user[c][1].name = Upper(given[c])
         /\ IsStatement(sql[c]) => sql[c][2] \in {Upper(given[c]), DQuote(Upper(given[c]))}
    /\ SameStartOtherCase =>
         /\ last[1].user = user[c]
         /\ last[1].sql = sql[c]
         /\ (pc[c] = "done" /\ last[1].ok) =>
              (last[1].changed = changed[c] /\ last[1].final = final[c])

C15_Witness ==
    /\ SameStartOtherCase /\ pc[c] = "done" /\ last[1].ok
    /\ given[c] = "app_user"
    /\ user[c] # NoUser
    /\ IsStatement(sql[c]) /\ changed[c]

SuccessfulOps == {<<"read", "read">>, <<"read", "execute", "read">>}

\* C16: a successful pass is one read, then zero or one execution, then one
\* read whose result is the reported record.
C16_PassOrdering ==
    /\ Executions(ops[c]) > 0 => ops[c][1] = "read"
    /\ pc[c] = "done" =>
         /\ ops[c] \in SuccessfulOps
         /\ Count(ops[c], "execute") = 1 <=> IsStatement(sql[c])
         /\ final[c] = getUser(db, Upper(given[c]))
    /\ (last # <<>> /\ last[1].ok) =>
         /\ last[1].ops \in SuccessfulOps
         /\ last[1].final = getUser(last[1].after, Upper(last[1].given))

C16_Witness ==
    /\ pc[c] = "done" /\ ops[c] = <<"read", "execute", "read">>
    /\ user[c] # NoUser /\ final[c] # NoUser /\ final[c] # user[c]

ReadNotFound(p) ==
    /\ pc[p] \in {"confirm", "done", "failed"}
    /\ ops[p][1] = "read"
    /\ user[p] = NoUser

\* C17: a pass that read NotFound issues its CREATE whatever was written to
\* the database since (no lock, no second check), so two interleaved passes
\* for a missing account both issue a CREATE.
C17_NoCoordination ==
    \A p \in Procs :
        ReadNotFound(p) =>
            /\ Executions(ops[p]) = 1 <=> desired.state # "absent"
            /\ Executions(ops[p]) = 1 => sql[p][1] = "CREATE USER"

C17_Witness ==
    /\ \A p \in Procs :
          ReadNotFound(p) /\ Executions(ops[p]) = 1 /\ sql[p][1] = "CREATE USER"
    /\ Count(ops["c1"], "execute") = 1
    /\ Count(ops["c2"], "execute failed") = 1
    /\ db["APP_USER"] # <<>>

\* the desired state with every empty string replaced by unset
Unset(v) == IF v = Some("") THEN None ELSE v
WithoutEmpty(d) ==
    [password |-> Unset(d.password), state |-> d.state,
     default_tablespace |-> Unset(d.default_tablespace),
     temporary_tablespace |-> Unset(d.temporary_tablespace)]

\* C18: an empty string in password or a tablespace gives the same decision
\* and the same statement text as the field left unset.
C18_FalsyMeansAbsent ==
    pc[c] = "decided" =>
        sql[c] = ensureSql(WithoutEmpty(desired), ensureName(given[c]), user[c])

\* C19: a pass that returns changed=false executed nothing, left the
\* database as it was and reports the record it read at its start.
C19_NoOpFrame ==
    /\ (pc[c] = "done" /\ ~changed[c]) =>
         /\ Executions(ops[c]) = 0
         /\ db = before[c]
         /\ final[c] = user[c]
    /\ (last # <<>> /\ last[1].ok /\ ~last[1].changed) =>
         /\ Executions(last[1].ops) = 0
         /\ last[1].after = last[1].before
         /\ last[1].final = last[1].user

C19_Witness ==
    /\ pc[c] = "done" /\ ~changed[c] /\ user[c] # NoUser
    /\ Provided(desired.password) /\ final[c] = user[c]

====
